---- MODULE Spec2Model ----
(***************************************************************************)
(* A model of vds-gen's VDSGenerator (src/vdsgen/vdsgenerator.py): the     *)
(* layout planner construct_vds_metadata, the mapping builder              *)
(* create_vds_maps, the node validator validate_node, the consistency      *)
(* check process_source_datasets and the orchestration generate_vds,       *)
(* running against one output artifact (an HDF5 file) that an external     *)
(* process may touch between the steps of a run.                           *)
(*                                                                         *)
(* Python lists and tuples are sequences; At(s, idx) reads the element the *)
(* code addresses as s[idx] (0-based).  Python strings that the code       *)
(* inspects character by character (target_node) are sequences of          *)
(* one-character strings.                                                  *)
(***************************************************************************)
EXTENDS Integers, Sequences, FiniteSets, TLC

VARIABLES
    self,        \* the generator object: its attributes
    pc,          \* position of the current generate_vds / probing run
    error,       \* exception that ended the last run, "none" if none
    existed,     \* generate_vds: what os.path.isfile returned in this run
    vds_data,    \* generate_vds local: the VDS tuple (shape, spacing)
    map_list,    \* generate_vds local: the list of VirtualMaps
    artifact,    \* the output file on disk: exists, groups, datasets
    log,         \* calls made by the current run, in order
    changed,     \* the current run has durably changed the artifact
    ext_touched, \* an external process has touched the artifact
    first_run,   \* the current (or last) run is this generator's first
    attr_order,  \* iteration order of the metadata dict (data.items())
    data,        \* process_source_datasets local: first fragment's metadata
    probed,      \* fragments opened by grab_metadata so far, in order
    result,      \* what process_source_datasets returned, None before
    opened,      \* fragment paths grab_metadata gave to h5.File, in order
    handles,     \* fragment paths whose file handle is not released yet
    args,        \* the arguments of the call being run (main or __init__)
    listing,     \* find_files local: what os.listdir returned
    absent,      \* fragment paths os.path.isfile found missing
    checked      \* fragment paths __init__ gave to os.path.isfile, in order

vars == <<self, pc, error, existed, vds_data, map_list, artifact, log,
          changed, ext_touched, first_run, attr_order, data, probed, result,
          opened, handles, args, listing, absent, checked>>

probe_vars == <<attr_order, data, probed, result, opened, handles>>

init_vars == <<args, listing, absent, checked>>

(***************************************************************************)
(* Bounds of the model.                                                    *)
(***************************************************************************)
MaxStripes == 5     \* most fragments in a layout
MaxSpacing == 2     \* largest stripe / module spacing tried
MaxHeight == 2      \* largest fragment height tried
MaxNodeLen == 3     \* longest target node, in characters
MaxProbe == 3       \* most fragments probed by process_source_datasets
MaxFiles == 2       \* longest files list given to the constructor
MaxListing == 3     \* most entries in the directory find_files lists

None == "None"

\* An optional argument: Nothing where Python passes None, Some(v) a value.
Nothing == <<>>
Some(v) == <<v>>

(***************************************************************************)
(* Class constants and defaults of VDSGenerator.                           *)
(***************************************************************************)
CREATE == "w"
APPEND == "a"
READ == "r"
FULL_SLICE == [full |-> TRUE, start |-> 0, stop |-> 0]
default_stripe_spacing == 10
default_module_spacing == 10
default_source_node == "data"
fillvalue == 1

slice(start, stop) == [full |-> FALSE, start |-> start, stop |-> stop]

\* s[idx] of a Python list, idx counted from 0.
At(s, idx) == s[idx + 1]

\* sum(spacing)
RECURSIVE sum(_)
sum(s) == IF s = <<>> THEN 0 ELSE Head(s) + sum(Tail(s))

(***************************************************************************)
(* construct_vds_metadata: the spacing list, as the three assignments of   *)
(* the code in their order, then the height and the shape.                 *)
(***************************************************************************)
\* range(first, stop, 2) of Python, as the set of its indices.
range2(first, stop) == {idx \in first..(stop - 1) : (idx - first) % 2 = 0}

\* spacing[-1] = 0 raises IndexError on the empty list.
construct_vds_metadata_raises(gen) == Len(gen.datasets) = 0

spacing_list_mut_no_final(gen) ==
    LET stripes == Len(gen.datasets)
        s0 == [i \in 1..stripes |-> 0]
        s1 == [i \in 1..stripes |->
                 IF (i - 1) \in range2(0, stripes - 1)
                 THEN gen.stripe_spacing ELSE s0[i]]
    IN  [i \in 1..stripes |->
                 IF (i - 1) \in range2(1, stripes)
                 THEN gen.module_spacing ELSE s1[i]]

spacing_list(gen) ==
    LET stripes == Len(gen.datasets)
        s0 == [i \in 1..stripes |-> 0]
        s1 == [i \in 1..stripes |->
                 IF (i - 1) \in range2(0, stripes - 1)
                 THEN gen.stripe_spacing ELSE s0[i]]
        s2 == [i \in 1..stripes |->
                 IF (i - 1) \in range2(1, stripes)
                 THEN gen.module_spacing ELSE s1[i]]
    IN  [s2 EXCEPT ![stripes] = 0]

construct_vds_metadata_mut_height(gen, source) ==
    LET stripes == Len(gen.datasets)
        spacing == spacing_list(gen)
        height == (source.height * stripes) + (stripes * gen.stripe_spacing)
        shape == source.frames \o <<height, source.width>>
    IN  [shape |-> shape, spacing |-> spacing]

construct_vds_metadata(gen, source) ==
    LET stripes == Len(gen.datasets)
        spacing == spacing_list(gen)
        height == (source.height * stripes) + sum(spacing)
        shape == source.frames \o <<height, source.width>>
    IN  [shape |-> shape, spacing |-> spacing]

(***************************************************************************)
(* create_vds_maps: one VirtualMap per dataset, the target position        *)
(* accumulated over the loop.                                              *)
(***************************************************************************)
VirtualSource(path, node, shape) ==
    [path |-> path, node |-> node, shape |-> shape]

VirtualTarget(path, node, shape) ==
    [path |-> path, node |-> node, shape |-> shape]

VirtualMap(v_source, v_target, dtype) ==
    [source |-> v_source, target |-> v_target, dtype |-> dtype]

\* stop = start + source.height + vds_data.spacing[idx]
slice_stop_mut_zero(start, source, vd, idx) == start

slice_stop_mut_no_spacing(start, source, vd, idx) == start + source.height

slice_stop(start, source, vd, idx) ==
    start + source.height + At(vd.spacing, idx)

target_index_mut_one_full(frames, start, stop) ==
    <<FULL_SLICE, slice(start, stop), FULL_SLICE>>

\* tuple([self.FULL_SLICE] * len(source.frames) + [slice(start, stop)] +
\*       [self.FULL_SLICE])
target_index(frames, start, stop) ==
    [i \in 1..Len(frames) |-> FULL_SLICE]
    \o <<slice(start, stop)>> \o <<FULL_SLICE>>

RECURSIVE create_vds_maps_loop(_, _, _, _, _, _)
create_vds_maps_loop(gen, source, vd, idx, current_position, maps) ==
    IF idx >= Len(gen.datasets) THEN maps
    ELSE
    LET dataset == At(gen.datasets, idx)
        source_shape == source.frames \o <<source.height, source.width>>
        vds == VirtualTarget(gen.output_file, gen.target_node, vd.shape)
        v_source == VirtualSource(dataset, gen.source_node, source_shape)
        start == current_position
        stop == slice_stop(start, source, vd, idx)
        index == target_index(source.frames, start, stop)
        v_target == [path |-> vds.path, node |-> vds.node,
                     shape |-> vds.shape, index |-> index]
        v_map == VirtualMap(v_source, v_target, source.dtype)
    IN  create_vds_maps_loop(gen, source, vd, idx + 1, stop,
                             Append(maps, v_map))

create_vds_maps_mut_offset(gen, source, vd) ==
    create_vds_maps_loop(gen, source, vd, 0, 1, <<>>)

create_vds_maps(gen, source, vd) ==
    create_vds_maps_loop(gen, source, vd, 0, 0, <<>>)

(***************************************************************************)
(* Python string methods used on target_node.                              *)
(***************************************************************************)
SEP == "/"

startswith(s, c) == Len(s) > 0 /\ s[1] = c

endswith(s, c) == Len(s) > 0 /\ s[Len(s)] = c

\* c in s
contains(s, c) == \E i \in 1..Len(s) : s[i] = c

\* s.rsplit(c, 1)[0]: what precedes the last c, all of s when c is absent.
rsplit_head(s, c) ==
    IF ~contains(s, c) THEN s
    ELSE LET last == CHOOSE i \in 1..Len(s) :
                        s[i] = c /\ \A j \in (i + 1)..Len(s) : s[j] # c
         IN  SubSeq(s, 1, last - 1)

(***************************************************************************)
(* The output artifact as h5py shows it.  A name is resolved from the root *)
(* group: it is cut at the separators and empty segments are dropped, so   *)
(* "/a", "a/" and "a" name the same object and "/" names the root.         *)
(***************************************************************************)
RECURSIVE h5_split(_, _, _)
h5_split(s, segment, path) ==
    IF s = <<>>
    THEN IF segment = <<>> THEN path ELSE Append(path, segment)
    ELSE IF Head(s) = SEP
         THEN h5_split(Tail(s), <<>>,
                       IF segment = <<>> THEN path ELSE Append(path, segment))
         ELSE h5_split(Tail(s), Append(segment, Head(s)), path)

h5_path(name) == h5_split(name, <<>>, <<>>)

NoFile == [exists |-> FALSE, groups |-> {}, datasets |-> {}]
EmptyFile == [exists |-> TRUE, groups |-> {}, datasets |-> {}]

dataset_paths(file) == {d.path : d \in file.datasets}

\* The proper, non-root prefixes of a path: its intermediate groups.
ancestors(path) == {SubSeq(path, 1, k) : k \in 1..(Len(path) - 1)}

h5_get_mut_groups_only(file, name) ==
    LET path == h5_path(name)
    IN  IF path = <<>> \/ path \in file.groups THEN "Group" ELSE None

\* vds.get(name): None when nothing is linked at the name.
h5_get(file, name) ==
    LET path == h5_path(name)
    IN  IF path = <<>> \/ path \in file.groups THEN "Group"
        ELSE IF path \in dataset_paths(file) THEN "Dataset"
        ELSE None

\* A new link can be made at path: nothing is there, no ancestor is a dataset.
h5_can_link(file, path) ==
    /\ path # <<>>
    /\ path \notin file.groups
    /\ path \notin dataset_paths(file)
    /\ ancestors(path) \cap dataset_paths(file) = {}

h5_create_group_mut_replace(file, name) ==
    LET path == h5_path(name)
    IN  [file EXCEPT !.groups = {path} \cup ancestors(path),
                     !.datasets = {}]

\* vds.create_group(name): the group and its missing intermediate groups.
h5_create_group(file, name) ==
    LET path == h5_path(name)
    IN  [file EXCEPT !.groups = @ \cup {path} \cup ancestors(path)]

h5_open_mut_recheck(file, mode) ==
    IF file.exists THEN file ELSE EmptyFile

h5_open_mut_truncate(file, mode) == EmptyFile

\* h5.File(name, mode) on the file as it is on disk.
h5_open(file, mode) ==
    IF mode = CREATE THEN EmptyFile
    ELSE IF file.exists THEN file
    ELSE EmptyFile

(***************************************************************************)
(* validate_node: the path check, then the creation of the sub-group.      *)
(***************************************************************************)
validate_node_raises_mut_leading_only(gen) == startswith(gen.target_node, SEP)

validate_node_raises(gen) ==
    startswith(gen.target_node, SEP) \/ endswith(gen.target_node, SEP)

validate_node_creates_mut_always(gen, vds_file) ==
    contains(gen.target_node, SEP)

validate_node_creates(gen, vds_file) ==
    /\ contains(gen.target_node, SEP)
    /\ h5_get(vds_file, rsplit_head(gen.target_node, SEP)) = None

validate_node(gen, vds_file) ==
    IF validate_node_creates(gen, vds_file)
    THEN h5_create_group(vds_file, rsplit_head(gen.target_node, SEP))
    ELSE vds_file

(***************************************************************************)
(* The generator object and the inputs tried.                              *)
(***************************************************************************)
Files == <<"stripe_1.h5", "stripe_2.h5", "stripe_3.h5", "stripe_4.h5",
           "stripe_5.h5", "stripe_6.h5", "stripe_7.h5", "stripe_8.h5">>

Asc(n) == SubSeq(Files, 1, n)
Desc(n) == [i \in 1..n |-> Files[n + 1 - i]]

Source(frames, height, width, dtype) ==
    [frames |-> frames, height |-> height, width |-> width, dtype |-> dtype]

VDS(shape, spacing) == [shape |-> shape, spacing |-> spacing]

\* The attributes __init__ leaves on the object; mode is the class default.
Generator(datasets, source, target_node, stripe_spacing, module_spacing) ==
    [datasets |-> datasets, source_metadata |-> source,
     source_node |-> default_source_node, target_node |-> target_node,
     stripe_spacing |-> stripe_spacing, module_spacing |-> module_spacing,
     output_file |-> "vds.h5", mode |-> CREATE]

Alphabet == {SEP, "a"}

\* The target nodes of the validate_node tests, a for each of their segments:
\* "a/a/a", "/a/a/a" and "/a/a/a//".
TestNodes == {<<"a", SEP, "a", SEP, "a">>,
              <<SEP, "a", SEP, "a", SEP, "a">>,
              <<SEP, "a", SEP, "a", SEP, "a", SEP, SEP>>}

TargetNodes == UNION {[1..k -> Alphabet] : k \in 1..MaxNodeLen} \cup TestNodes

SpacingValues == (0 - 1)..MaxSpacing
FrameDims == {<<>>, <<3>>, <<2, 3>>}
Widths == {4, 5}
DTypes == {"uint16", "int16"}
DatasetLists == UNION {{Asc(n), Desc(n)} : n \in 0..MaxStripes}

NoError == [type |-> "none", arg |-> None]
Raised(type, arg) == [type |-> type, arg |-> arg]
NoVDS == VDS(<<>>, <<>>)
NoMeta == Source(<<>>, 0, 0, None)

(***************************************************************************)
(* generate_vds, one action per statement that touches the disk or calls   *)
(* a method; an external process may act between them.                     *)
(***************************************************************************)
generate_vds_isfile_mut_no_check ==
    /\ pc \in {"ready", "done", "failed"}
    /\ existed' = artifact.exists
    /\ first_run' = (pc = "ready")
    /\ pc' = "plan"
    /\ log' = <<"isfile">>
    /\ error' = NoError
    /\ changed' = FALSE
    /\ vds_data' = NoVDS
    /\ map_list' = <<>>
    /\ UNCHANGED <<self, artifact, ext_touched, probe_vars, init_vars>>

\* os.path.isfile(self.output_file)
generate_vds_isfile ==
    /\ pc \in {"ready", "done", "failed"}
    /\ existed' = artifact.exists
    /\ first_run' = (pc = "ready")
    /\ pc' = IF artifact.exists THEN "read" ELSE "plan"
    /\ log' = <<"isfile">>
    /\ error' = NoError
    /\ changed' = FALSE
    /\ vds_data' = NoVDS
    /\ map_list' = <<>>
    /\ UNCHANGED <<self, artifact, ext_touched, probe_vars, init_vars>>

\* The mode left on the object once the node was looked up.
mode_after_check_mut_keep(gen, node) == gen.mode

mode_after_check(gen, node) == IF node = None THEN APPEND ELSE gen.mode

node_conflict_mut_never(node) == FALSE

node_conflict(node) == node # None

\* with h5.File(self.output_file, self.READ) as vds: node = vds.get(...)
generate_vds_read ==
    /\ pc = "read"
    /\ log' = Append(log, "open_" \o READ)
    /\ IF ~artifact.exists
       THEN /\ pc' = "failed"
            /\ error' = Raised("IOError", "unable to open file")
            /\ UNCHANGED self
       ELSE LET node == h5_get(artifact, self.target_node)
            IN  IF node_conflict(node)
                THEN /\ pc' = "failed"
                     /\ error' = Raised("IOError", "already has an entry")
                     /\ UNCHANGED self
                ELSE /\ pc' = "plan"
                     /\ self' = [self EXCEPT !.mode = mode_after_check(self, node)]
                     /\ UNCHANGED error
    /\ UNCHANGED <<existed, first_run, vds_data, map_list, artifact, changed,
                   ext_touched, probe_vars, init_vars>>

\* vds_data = self.construct_vds_metadata(self.source_metadata)
generate_vds_plan ==
    /\ pc = "plan"
    /\ log' = Append(log, "construct_vds_metadata")
    /\ IF construct_vds_metadata_raises(self)
       THEN /\ pc' = "failed"
            /\ error' = Raised("IndexError", "list assignment index")
            /\ UNCHANGED vds_data
       ELSE /\ pc' = "maps"
            /\ vds_data' = construct_vds_metadata(self, self.source_metadata)
            /\ UNCHANGED error
    /\ UNCHANGED <<self, existed, first_run, map_list, artifact, changed,
                   ext_touched, probe_vars, init_vars>>

\* map_list = self.create_vds_maps(self.source_metadata, vds_data)
generate_vds_maps ==
    /\ pc = "maps"
    /\ log' = Append(log, "create_vds_maps")
    /\ map_list' = create_vds_maps(self, self.source_metadata, vds_data)
    /\ pc' = "open"
    /\ UNCHANGED <<self, error, existed, first_run, vds_data, artifact,
                   changed, ext_touched, probe_vars, init_vars>>

\* with h5.File(self.output_file, self.mode, libver="latest") as vds:
generate_vds_open ==
    /\ pc = "open"
    /\ log' = Append(log, "open_" \o self.mode)
    /\ artifact' = h5_open(artifact, self.mode)
    /\ changed' = (changed \/ artifact' # artifact)
    /\ pc' = "validate"
    /\ UNCHANGED <<self, error, existed, first_run, vds_data, map_list,
                   ext_touched, probe_vars, init_vars>>

\* self.validate_node(vds); an exception leaves the with block, closing vds.
generate_vds_validate ==
    /\ pc = "validate"
    /\ IF validate_node_raises(self)
       THEN /\ pc' = "failed"
            /\ error' = Raised("ValueError", "leading or trailing slashes")
            /\ log' = Append(log, "validate_node")
            /\ UNCHANGED <<artifact, changed>>
       ELSE IF validate_node_creates(self, artifact)
       THEN /\ log' = log \o <<"validate_node", "create_group">>
            /\ IF h5_can_link(artifact, h5_path(rsplit_head(self.target_node, SEP)))
               THEN /\ artifact' = validate_node(self, artifact)
                    /\ changed' = TRUE
                    /\ pc' = "commit"
                    /\ UNCHANGED error
               ELSE /\ pc' = "failed"
                    /\ error' = Raised("H5Error", "unable to create group")
                    /\ UNCHANGED <<artifact, changed>>
       ELSE /\ log' = Append(log, "validate_node")
            /\ pc' = "commit"
            /\ UNCHANGED <<artifact, changed, error>>
    /\ UNCHANGED <<self, existed, first_run, vds_data, map_list, ext_touched,
                   probe_vars, init_vars>>

\* What create_virtual_dataset(VMlist=map_list, fillvalue=0x1) links.
virtual_dataset_mut_partial(gen, maps) ==
    [path |-> h5_path(gen.target_node), VMlist |-> SubSeq(maps, 1, 1),
     fillvalue |-> fillvalue]

virtual_dataset(gen, maps) ==
    [path |-> h5_path(gen.target_node), VMlist |-> maps,
     fillvalue |-> fillvalue]

\* vds.create_virtual_dataset(VMlist=map_list, fillvalue=0x1), then close.
generate_vds_commit ==
    /\ pc = "commit"
    /\ log' = Append(log, "create_virtual_dataset")
    /\ IF h5_can_link(artifact, h5_path(self.target_node))
       THEN /\ artifact' = [artifact EXCEPT
                              !.datasets = @ \cup {virtual_dataset(self, map_list)}]
            /\ changed' = TRUE
            /\ pc' = "done"
            /\ UNCHANGED error
       ELSE /\ pc' = "failed"
            /\ error' = Raised("H5Error", "unable to create dataset")
            /\ UNCHANGED <<artifact, changed>>
    /\ UNCHANGED <<self, existed, first_run, vds_data, map_list, ext_touched,
                   probe_vars, init_vars>>

\* Once a run has ended, another generator is constructed for the same
\* fragments and output file.
NewGenerator ==
    /\ pc \in {"done", "failed"}
    /\ \E target_node \in TargetNodes :
         self' = Generator(self.datasets, self.source_metadata, target_node,
                           self.stripe_spacing, self.module_spacing)
    /\ self' # self
    /\ pc' = "ready"
    /\ error' = NoError
    /\ log' = <<>>
    /\ changed' = FALSE
    /\ existed' = FALSE
    /\ first_run' = TRUE
    /\ vds_data' = NoVDS
    /\ map_list' = <<>>
    /\ UNCHANGED <<artifact, ext_touched, probe_vars, init_vars>>

(***************************************************************************)
(* An external process on the output file.  It acts only while no run      *)
(* holds the file open.                                                    *)
(***************************************************************************)
ExternalDataset(path) == [path |-> path, VMlist |-> <<>>, fillvalue |-> 0]

ExtFree == pc \notin {"validate", "commit"}

ExtCreate ==
    /\ ExtFree
    /\ ~artifact.exists
    /\ artifact' = EmptyFile
    /\ ext_touched' = TRUE
    /\ UNCHANGED <<self, pc, error, existed, first_run, vds_data, map_list,
                   log, changed, probe_vars, init_vars>>

ExtRemove ==
    /\ ExtFree
    /\ artifact.exists
    /\ artifact' = NoFile
    /\ ext_touched' = TRUE
    /\ UNCHANGED <<self, pc, error, existed, first_run, vds_data, map_list,
                   log, changed, probe_vars, init_vars>>

\* The external process writes a dataset at the generator's target node.
ExtPopulate ==
    /\ ExtFree
    /\ artifact.exists
    /\ h5_can_link(artifact, h5_path(self.target_node))
    /\ artifact' = [artifact EXCEPT
                      !.groups = @ \cup ancestors(h5_path(self.target_node)),
                      !.datasets = @ \cup
                          {ExternalDataset(h5_path(self.target_node))}]
    /\ ext_touched' = TRUE
    /\ UNCHANGED <<self, pc, error, existed, first_run, vds_data, map_list,
                   log, changed, probe_vars, init_vars>>

RunSource == Source(<<3>>, 2, 4, "uint16")

ProbeIdle ==
    /\ attr_order = <<>>
    /\ data = NoMeta
    /\ probed = <<>>
    /\ result = NoMeta
    /\ opened = <<>>
    /\ handles = {}

\* No constructor call is being followed: the generator is given whole.
NoArgs == [entry |-> "none"]

ConstructorIdle ==
    /\ args = NoArgs
    /\ listing = Nothing
    /\ absent = {}
    /\ checked = <<>>

Init ==
    /\ \E datasets \in {Asc(2), Asc(3)}, target_node \in TargetNodes :
         self = Generator(datasets, RunSource, target_node,
                          default_stripe_spacing, default_module_spacing)
    /\ pc = "ready"
    /\ error = NoError
    /\ existed = FALSE
    /\ first_run = TRUE
    /\ vds_data = NoVDS
    /\ map_list = <<>>
    /\ artifact \in {NoFile, EmptyFile}
    /\ log = <<>>
    /\ changed = FALSE
    /\ ext_touched = FALSE
    /\ ProbeIdle
    /\ ConstructorIdle

Next ==
    \/ generate_vds_isfile
    \/ generate_vds_read
    \/ generate_vds_plan
    \/ generate_vds_maps
    \/ generate_vds_open
    \/ generate_vds_validate
    \/ generate_vds_commit
    \/ NewGenerator
    \/ ExtCreate
    \/ ExtRemove
    \/ ExtPopulate

Spec == Init /\ [][Next]_vars

(***************************************************************************)
(* The layout alone: the planning steps of generate_vds on every           *)
(* generator the bounds allow.                                             *)
(***************************************************************************)
InitLayout ==
    /\ \E datasets \in DatasetLists, frames \in FrameDims,
          height \in 0..MaxHeight, width \in Widths, dtype \in DTypes,
          stripe_spacing \in SpacingValues, module_spacing \in SpacingValues :
         self = Generator(datasets, Source(frames, height, width, dtype),
                          <<"a">>, stripe_spacing, module_spacing)
    /\ pc = "plan"
    /\ error = NoError
    /\ existed = FALSE
    /\ first_run = TRUE
    /\ vds_data = NoVDS
    /\ map_list = <<>>
    /\ artifact = NoFile
    /\ log = <<"isfile">>
    /\ changed = FALSE
    /\ ext_touched = FALSE
    /\ ProbeIdle
    /\ ConstructorIdle

NextLayout ==
    \/ generate_vds_plan
    \/ generate_vds_maps

SpecLayout == InitLayout /\ [][NextLayout]_vars

(***************************************************************************)
(* process_source_datasets: the fragments are read one by one; what        *)
(* grab_metadata finds in a fragment is drawn when the fragment is read.   *)
(***************************************************************************)
Attributes == {"frames", "height", "width", "dtype"}

\* Orders in which data.items() may yield the four keys.
ItemOrders == {o \in [1..4 -> Attributes] : {o[i] : i \in 1..4} = Attributes}

Metas == [frames : {<<3>>, <<2, 3>>}, height : {1, 2}, width : Widths,
          dtype : DTypes]

\* The attribute the inner loop raises on: the first one, in the order of
\* data.items(), whose value differs; None when all agree.
mismatched_mut_skip_frames(first, temp_data, order) ==
    LET bad == {i \in 1..Len(order) :
                  /\ order[i] # "frames"
                  /\ temp_data[order[i]] # first[order[i]]}
    IN  IF bad = {} THEN None
        ELSE order[CHOOSE i \in bad : \A j \in bad : i <= j]

mismatched_mut_skip_dtype(first, temp_data, order) ==
    LET bad == {i \in 1..Len(order) :
                  /\ order[i] # "dtype"
                  /\ temp_data[order[i]] # first[order[i]]}
    IN  IF bad = {} THEN None
        ELSE order[CHOOSE i \in bad : \A j \in bad : i <= j]

mismatched_mut_last(first, temp_data, order) ==
    LET bad == {i \in 1..Len(order) : temp_data[order[i]] # first[order[i]]}
    IN  IF bad = {} THEN None
        ELSE order[CHOOSE i \in bad : \A j \in bad : i >= j]

mismatched(first, temp_data, order) ==
    LET bad == {i \in 1..Len(order) : temp_data[order[i]] # first[order[i]]}
    IN  IF bad = {} THEN None
        ELSE order[CHOOSE i \in bad : \A j \in bad : i <= j]

\* The handles that may be open once grab_metadata has returned for
\* file_path.  It opens h5.File(file_path, 'r') and returns without closing
\* it: the handle, like those of earlier calls, stays open until the garbage
\* collector releases it, which may be at the return or later.
grab_metadata_handles(held, file_path) == SUBSET (held \cup {file_path})

\* data = self.grab_metadata(self.datasets[0])
process_source_datasets_first ==
    /\ pc = "probe"
    /\ probed = <<>>
    /\ IF Len(self.datasets) = 0
       THEN /\ pc' = "failed"
            /\ error' = Raised("IndexError", "list index out of range")
            /\ UNCHANGED <<data, probed, opened, handles>>
       ELSE \E meta \in Metas :
                /\ data' = meta
                /\ probed' = <<meta>>
                /\ opened' = <<At(self.datasets, 0)>>
                /\ handles' \in grab_metadata_handles(handles,
                                                      At(self.datasets, 0))
                /\ UNCHANGED <<pc, error>>
    /\ UNCHANGED <<self, existed, first_run, vds_data, map_list, artifact,
                   log, changed, ext_touched, attr_order, result,
                   init_vars>>

\* One round of the loop over self.datasets[1:].
process_source_datasets_next ==
    /\ pc = "probe"
    /\ probed # <<>>
    /\ Len(probed) < Len(self.datasets)
    /\ \E temp_data \in Metas :
         /\ probed' = Append(probed, temp_data)
         /\ opened' = Append(opened, At(self.datasets, Len(probed)))
         /\ handles' \in grab_metadata_handles(handles,
                                               At(self.datasets, Len(probed)))
         /\ LET attribute == mismatched(data, temp_data, attr_order)
            IN  IF attribute # None
                THEN /\ pc' = "failed"
                     /\ error' = Raised("ValueError", attribute)
                ELSE UNCHANGED <<pc, error>>
    /\ UNCHANGED <<self, existed, first_run, vds_data, map_list, artifact,
                   log, changed, ext_touched, attr_order, data, result,
                   init_vars>>

\* return Source(frames=data['frames'], height=data['height'], ...)
process_source_datasets_return ==
    /\ pc = "probe"
    /\ probed # <<>>
    /\ Len(probed) = Len(self.datasets)
    /\ result' = Source(data.frames, data.height, data.width, data.dtype)
    /\ pc' = "probed"
    /\ UNCHANGED <<self, error, existed, first_run, vds_data, map_list,
                   artifact, log, changed, ext_touched, attr_order, data,
                   probed, opened, handles, init_vars>>

InitProbe ==
    /\ \E n \in 0..MaxProbe :
         self = Generator(Asc(n), NoMeta, <<"a">>, default_stripe_spacing,
                          default_module_spacing)
    /\ pc = "probe"
    /\ error = NoError
    /\ existed = FALSE
    /\ first_run = TRUE
    /\ vds_data = NoVDS
    /\ map_list = <<>>
    /\ artifact = NoFile
    /\ log = <<>>
    /\ changed = FALSE
    /\ ext_touched = FALSE
    /\ attr_order \in ItemOrders
    /\ data = NoMeta
    /\ probed = <<>>
    /\ result = NoMeta
    /\ opened = <<>>
    /\ handles = {}
    /\ ConstructorIdle

NextProbe ==
    \/ process_source_datasets_first
    \/ process_source_datasets_next
    \/ process_source_datasets_return

SpecProbe == InitProbe /\ [][NextProbe]_vars

(***************************************************************************)
(* Python strings the constructor inspects.  A file name is one string;    *)
(* Chars gives its characters and Str is the string of given characters.   *)
(***************************************************************************)
Strings == {"", "s", "s1.h5", "s2.hdf", "s10.h5", "s.h5", "t1.h5", "s1.txt",
            ".h5", ".hdf", ".txt"}

Chars(s) ==
    CASE s = "" -> <<>>
      [] s = "s" -> <<"s">>
      [] s = "s1.h5" -> <<"s", "1", ".", "h", "5">>
      [] s = "s2.hdf" -> <<"s", "2", ".", "h", "d", "f">>
      [] s = "s10.h5" -> <<"s", "1", "0", ".", "h", "5">>
      [] s = "s.h5" -> <<"s", ".", "h", "5">>
      [] s = "t1.h5" -> <<"t", "1", ".", "h", "5">>
      [] s = "s1.txt" -> <<"s", "1", ".", "t", "x", "t">>
      [] s = ".h5" -> <<".", "h", "5">>
      [] s = ".hdf" -> <<".", "h", "d", "f">>
      [] s = ".txt" -> <<".", "t", "x", "t">>

Str(c) == CHOOSE s \in Strings : Chars(s) = c

\* The characters of the model in code point order, and ord() by position.
CodePoints == <<".", "0", "1", "2", "5", "d", "f", "h", "s", "t", "x">>

ord(c) == CHOOSE i \in 1..Len(CodePoints) : CodePoints[i] = c

\* a < b on strings: lexicographic by code point.
RECURSIVE chars_lt(_, _)
chars_lt(a, b) ==
    IF b = <<>> THEN FALSE
    ELSE IF a = <<>> THEN TRUE
    ELSE IF Head(a) = Head(b) THEN chars_lt(Tail(a), Tail(b))
    ELSE ord(Head(a)) < ord(Head(b))

str_lt(a, b) == chars_lt(Chars(a), Chars(b))

\* sorted(l), by insertion.
RECURSIVE sorted(_)
sorted(l) ==
    IF l = <<>> THEN <<>>
    ELSE LET rest == sorted(Tail(l))
             k == Cardinality({i \in 1..Len(rest) : str_lt(rest[i], Head(l))})
         IN  SubSeq(rest, 1, k) \o <<Head(l)>> \o SubSeq(rest, k + 1, Len(rest))

is_prefix(p, s) == Len(p) <= Len(s) /\ SubSeq(s, 1, Len(p)) = p

\* re.match(prefix + r"\d+\.(hdf5|hdf|h5)", file_): anchored at the start of
\* the name only; the prefix holds no regular-expression operator.
Digits == {"0", "1", "2", "5"}

Extensions == {<<"h", "d", "f", "5">>, <<"h", "d", "f">>, <<"h", "5">>}

re_match(prefix, file_) ==
    LET p == Chars(prefix)
        s == Chars(file_)
    IN  /\ is_prefix(p, s)
        /\ \E k \in 1..(Len(s) - Len(p)) :
             /\ \A i \in 1..k : s[Len(p) + i] \in Digits
             /\ Len(s) > Len(p) + k
             /\ s[Len(p) + k + 1] = "."
             /\ \E e \in Extensions :
                  is_prefix(e, SubSeq(s, Len(p) + k + 2, Len(s)))

\* os.path.join(path, file_) for a relative file_; the paths of the model
\* are absolute and normal, so os.path.abspath leaves them as they are.
os_path_join(path, file_) == path \o "/" \o file_

\* path_.split("/")[-1] of a joined path: the name that was joined.
basename(path, path_) ==
    CHOOSE f \in Strings : os_path_join(path, f) = path_

\* os.path.commonprefix(files): the longest common leading characters.
os_path_commonprefix(files) ==
    IF files = <<>> THEN ""
    ELSE LET c == [i \in 1..Len(files) |-> Chars(files[i])]
             common == {k \in 0..Len(c[1]) :
                          \A i \in 1..Len(files) :
                              is_prefix(SubSeq(c[1], 1, k), c[i])}
         IN  Str(SubSeq(c[1], 1, CHOOSE k \in common : \A j \in common : j <= k))

\* os.path.splitext(file_)[1]: from the last dot on, a leading dot aside.
os_path_splitext(file_) ==
    LET c == Chars(file_)
        dots == {i \in 2..Len(c) : c[i] = "."}
    IN  IF dots = {} THEN ""
        ELSE Str(SubSeq(c, CHOOSE i \in dots : \A j \in dots : j <= i, Len(c)))

(***************************************************************************)
(* find_files, construct_vds_name and parse_shape.                         *)
(***************************************************************************)
RECURSIVE find_files_loop(_, _, _)
find_files_loop(gen, names, files) ==
    IF names = <<>> THEN files
    ELSE find_files_loop(gen, Tail(names),
            IF re_match(gen.prefix, Head(names))
            THEN Append(files, os_path_join(gen.path, Head(names)))
            ELSE files)

find_files_mut_unsorted(gen, dir) == find_files_loop(gen, dir, <<>>)

\* The list find_files builds from os.listdir(self.path), before its checks.
find_files(gen, dir) == find_files_loop(gen, sorted(dir), <<>>)

construct_vds_name(gen, files) ==
    gen.prefix \o "vds" \o os_path_splitext(At(files, 0))

\* height, width = shape[-2:] needs two values to unpack.
parse_shape_raises(shape) == Len(shape) < 2

parse_shape(shape) ==
    [frames |-> SubSeq(shape, 1, Len(shape) - 2),
     height |-> shape[Len(shape) - 1],
     width |-> shape[Len(shape)]]

(***************************************************************************)
(* VDSGenerator.__init__, one action per block of the constructor, and     *)
(* app.main in front of it for a run from the command line.                *)
(***************************************************************************)
default_target_node == <<"f", "u", "l", "l", "_", "f", "r", "a", "m", "e">>

\* shape and data type argparse supplies when --shape / --data_type are absent
default_shape == <<1, 256, 2048>>
default_data_type == "uint16"

\* What an instance shows before __init__ assigns anything: the class
\* attributes.
ClassAttributes ==
    [stripe_spacing |-> default_stripe_spacing,
     module_spacing |-> default_module_spacing,
     source_node |-> default_source_node,
     target_node |-> default_target_node,
     mode |-> CREATE]

\* self.name = value
setattr(obj, name, value) == (name :> value) @@ obj

\* if arg is not None: self.name = arg
override(obj, name, arg) ==
    IF arg # Nothing THEN setattr(obj, name, arg[1]) ELSE obj

\* parser.error: the mutually exclusive, required group of --prefix and
\* --files, then the two checks of parse_args.
parse_args_error_mut_one_file(ns) ==
    \/ (ns.prefix = Nothing) = (ns.files = Nothing)
    \/ ns.empty /\ ns.files = Nothing
    \/ ns.files # Nothing /\ Len(ns.files[1]) < 1

parse_args_error(ns) ==
    \/ (ns.prefix = Nothing) = (ns.files = Nothing)
    \/ ns.empty /\ ns.files = Nothing
    \/ ns.files # Nothing /\ Len(ns.files[1]) < 2

\* The keyword arguments main passes to VDSGenerator.
main_kwargs(ns) ==
    [entry |-> ns.entry, path |-> ns.path, prefix |-> ns.prefix,
     files |-> ns.files, output |-> ns.output,
     source |-> IF ns.empty
                THEN Some([shape |-> ns.shape, dtype |-> ns.data_type])
                ELSE Nothing,
     source_node |-> ns.source_node, target_node |-> ns.target_node,
     stripe_spacing |-> ns.stripe_spacing,
     module_spacing |-> ns.module_spacing]

construct_vars == <<existed, first_run, vds_data, map_list, artifact, log,
                    changed, ext_touched, probe_vars>>

\* args = parse_args(), then the source_metadata main builds from them.
main_parse_args ==
    /\ pc = "cli"
    /\ IF parse_args_error(args)
       THEN /\ pc' = "failed"
            /\ error' = Raised("SystemExit", "parser.error")
            /\ UNCHANGED args
       ELSE /\ pc' = "new"
            /\ args' = main_kwargs(args)
            /\ UNCHANGED error
    /\ UNCHANGED <<self, listing, absent, checked, construct_vars>>

init_raises_mut_both_allowed(a) == a.prefix = Nothing /\ a.files = Nothing

init_raises(a) ==
    \/ (a.prefix = Nothing /\ a.files = Nothing)
    \/ (a.prefix # Nothing /\ a.files # Nothing)

overrides_mut_swapped(obj, a) ==
    override(override(override(override(obj,
        "source_node", a.source_node),
        "target_node", a.target_node),
        "stripe_spacing", a.module_spacing),
        "module_spacing", a.stripe_spacing)

\* Overwrite default values with arguments, if given
overrides(obj, a) ==
    override(override(override(override(obj,
        "source_node", a.source_node),
        "target_node", a.target_node),
        "stripe_spacing", a.stripe_spacing),
        "module_spacing", a.module_spacing)

\* The check of prefix and files, self.path and the overwritten defaults.
init_check ==
    /\ pc = "new"
    /\ IF init_raises(args)
       THEN /\ pc' = "failed"
            /\ error' = Raised("ValueError",
                               "One, and only one, of prefix or files required.")
            /\ UNCHANGED self
       ELSE /\ pc' = "files"
            /\ self' = overrides(setattr(self, "path", args.path), args)
            /\ UNCHANGED error
    /\ UNCHANGED <<init_vars, construct_vars>>

\* What os.listdir(self.path) may return: distinct names in any order.
DirNames == {"s1.h5", "s2.hdf", "s10.h5", "s.h5", "t1.h5", "s1.txt"}

Listings ==
    {dir \in UNION {[1..k -> DirNames] : k \in 0..MaxListing} :
        \A i, j \in 1..Len(dir) : i # j => dir[i] # dir[j]}

\* if files is None: self.prefix = prefix; self.datasets = self.find_files()
init_find_files ==
    /\ pc = "files"
    /\ args.files = Nothing
    /\ \E dir \in Listings :
         /\ listing' = Some(dir)
         /\ LET gen == setattr(self, "prefix", args.prefix[1])
                files == find_files(gen, dir)
            IN  IF Len(files) = 0
                THEN /\ pc' = "failed"
                     /\ error' = Raised("IOError",
                                        "No files matching pattern found.")
                     /\ self' = gen
                ELSE IF Len(files) < 2
                THEN /\ pc' = "failed"
                     /\ error' = Raised("IOError",
                            "Folder must contain more than one matching HDF5 file.")
                     /\ self' = gen
                ELSE /\ pc' = "name"
                     /\ self' = setattr(gen, "datasets", files)
                     /\ UNCHANGED error
    /\ UNCHANGED <<args, absent, checked, construct_vars>>

\* else: self.prefix = os.path.commonprefix(files); self.datasets = [...]
init_given_files ==
    /\ pc = "files"
    /\ args.files # Nothing
    /\ LET files == args.files[1]
       IN  self' = setattr(setattr(self, "prefix", os_path_commonprefix(files)),
                     "datasets",
                     [i \in 1..Len(files) |-> os_path_join(args.path, files[i])])
    /\ pc' = "name"
    /\ UNCHANGED <<error, init_vars, construct_vars>>

\* self.name: the output argument, or construct_vds_name(files), where
\* files[0] of an empty list raises IndexError.  find_files has returned.
init_name ==
    /\ pc = "name"
    /\ listing' = Nothing
    /\ LET files == IF args.files = Nothing
                    THEN [i \in 1..Len(self.datasets) |->
                            basename(self.path, self.datasets[i])]
                    ELSE args.files[1]
       IN  IF args.output # Nothing
           THEN /\ self' = setattr(self, "name", args.output[1])
                /\ pc' = "source"
                /\ UNCHANGED error
           ELSE IF files = <<>>
           THEN /\ pc' = "failed"
                /\ error' = Raised("IndexError", "list index out of range")
                /\ UNCHANGED self
           ELSE /\ self' = setattr(self, "name", construct_vds_name(self, files))
                /\ pc' = "source"
                /\ UNCHANGED error
    /\ UNCHANGED <<args, absent, checked, construct_vars>>

first_absent_mut_last(datasets, missing) ==
    LET bad == {i \in 1..Len(datasets) : datasets[i] \in missing}
    IN  IF bad = {} THEN 0 ELSE CHOOSE i \in bad : \A j \in bad : j <= i

\* Where the loop over self.datasets stops: the position of the first path
\* that is not a file, 0 when all are.
first_absent(datasets, missing) ==
    LET bad == {i \in 1..Len(datasets) : datasets[i] \in missing}
    IN  IF bad = {} THEN 0 ELSE CHOOSE i \in bad : \A j \in bad : i <= j

\* if source is None: for file_ in self.datasets: os.path.isfile(file_)
init_isfile ==
    /\ pc = "source"
    /\ args.source = Nothing
    /\ \E missing \in SUBSET {self.datasets[i] : i \in 1..Len(self.datasets)} :
         /\ absent' = missing
         /\ LET stop == first_absent(self.datasets, missing)
            IN  IF stop = 0
                THEN /\ checked' = self.datasets
                     /\ pc' = "probe"
                     /\ UNCHANGED error
                ELSE /\ checked' = SubSeq(self.datasets, 1, stop)
                     /\ pc' = "failed"
                     /\ error' = Raised("IOError", self.datasets[stop])
    /\ UNCHANGED <<self, args, listing, construct_vars>>

source_metadata_mut_transposed(source) ==
    LET parsed == parse_shape(source.shape)
    IN  Source(parsed.frames, parsed.width, parsed.height, source.dtype)

\* Source(frames=frames, height=height, width=width, dtype=source['dtype'])
source_metadata(source) ==
    LET parsed == parse_shape(source.shape)
    IN  Source(parsed.frames, parsed.height, parsed.width, source.dtype)

\* else: the given source is stored; then self.output_file.
init_parse_shape ==
    /\ pc = "source"
    /\ args.source # Nothing
    /\ IF parse_shape_raises(args.source[1].shape)
       THEN /\ pc' = "failed"
            /\ error' = Raised("ValueError", "need more than 1 value to unpack")
            /\ UNCHANGED self
       ELSE /\ pc' = "ready"
            /\ self' = setattr(setattr(self, "source_metadata",
                                       source_metadata(args.source[1])),
                          "output_file", os_path_join(self.path, self.name))
            /\ UNCHANGED error
    /\ UNCHANGED <<init_vars, construct_vars>>

\* self.source_metadata = self.process_source_datasets(), once it returned;
\* then self.output_file.
init_store ==
    /\ pc = "probed"
    /\ args.entry # "none"
    /\ self' = setattr(setattr(self, "source_metadata", result),
                  "output_file", os_path_join(self.path, self.name))
    /\ pc' = "ready"
    /\ UNCHANGED <<error, init_vars, construct_vars>>

\* gen.generate_vds() on the generator just constructed.
main_generate_vds ==
    /\ pc = "ready"
    /\ generate_vds_isfile

(***************************************************************************)
(* The arguments tried.  Every choice of prefix, files, output and source  *)
(* is tried with the defaults left alone, and every choice of the four     *)
(* overriding arguments with one choice of files and source.               *)
(***************************************************************************)
SuppliedNames == {"s1.h5", "s2.hdf"}

FileLists == UNION {[1..k -> SuppliedNames] : k \in 0..MaxFiles}

Shapes == {<<3, 2, 4>>, <<2, 4>>, <<4>>}

SourceArgs == {Nothing} \cup {Some([shape |-> s, dtype |-> "int16"]) : s \in Shapes}

SpacingArgs == {Nothing} \cup {Some(v) : v \in 0..MaxSpacing}

Kwargs ==
    [entry : {"api"}, path : {"/t"},
     prefix : {Nothing, Some("s")},
     files : {Nothing} \cup {Some(l) : l \in FileLists},
     output : {Nothing, Some("out.h5")},
     source : SourceArgs,
     source_node : {Nothing, Some("entry/data")},
     target_node : {Nothing, Some(<<"a">>), Some(<<"a", SEP, "a">>)},
     stripe_spacing : SpacingArgs,
     module_spacing : SpacingArgs]

DefaultsLeft(a) ==
    /\ a.source_node = Nothing
    /\ a.target_node = Nothing
    /\ a.stripe_spacing = Nothing
    /\ a.module_spacing = Nothing

StandardFiles(a) ==
    /\ a.prefix = Nothing
    /\ a.files = Some(<<"s2.hdf", "s1.h5">>)
    /\ a.output = Some("out.h5")
    /\ a.source = Some([shape |-> <<3, 2, 4>>, dtype |-> "int16"])

\* The command line that gives main the same arguments.
Namespace(a) ==
    [entry |-> "cli", path |-> a.path, prefix |-> a.prefix, files |-> a.files,
     output |-> a.output, empty |-> a.source # Nothing,
     shape |-> IF a.source = Nothing THEN default_shape ELSE a.source[1].shape,
     data_type |-> IF a.source = Nothing THEN default_data_type
                   ELSE a.source[1].dtype,
     source_node |-> a.source_node, target_node |-> a.target_node,
     stripe_spacing |-> a.stripe_spacing, module_spacing |-> a.module_spacing]

InsertionOrder == <<"frames", "height", "width", "dtype">>

InitInit ==
    /\ \E a \in Kwargs :
         /\ DefaultsLeft(a) \/ StandardFiles(a)
         /\ \/ args = a /\ pc = "new"
            \/ args = Namespace(a) /\ pc = "cli"
    /\ self = ClassAttributes
    /\ error = NoError
    /\ existed = FALSE
    /\ first_run = TRUE
    /\ vds_data = NoVDS
    /\ map_list = <<>>
    /\ artifact \in {NoFile, EmptyFile}
    /\ log = <<>>
    /\ changed = FALSE
    /\ ext_touched = FALSE
    /\ attr_order = InsertionOrder
    /\ data = NoMeta
    /\ probed = <<>>
    /\ result = NoMeta
    /\ opened = <<>>
    /\ handles = {}
    /\ listing = Nothing
    /\ absent = {}
    /\ checked = <<>>

NextInit ==
    \/ main_parse_args
    \/ init_check
    \/ init_find_files
    \/ init_given_files
    \/ init_name
    \/ init_isfile
    \/ init_parse_shape
    \/ process_source_datasets_first
    \/ process_source_datasets_next
    \/ process_source_datasets_return
    \/ init_store
    \/ main_generate_vds
    \/ generate_vds_read
    \/ generate_vds_plan
    \/ generate_vds_maps
    \/ generate_vds_open
    \/ generate_vds_validate
    \/ generate_vds_commit

SpecInit == InitInit /\ [][NextInit]_vars

(***************************************************************************)
(* Properties of the layout (checked under SpecLayout).                    *)
(***************************************************************************)
Stripes == Len(self.datasets)
Planned == pc \in {"maps", "open"}
Mapped == pc = "open"

\* The bounded slice of a mapping: the one on the stacked axis.
StackSlice(v_map) == v_map.target.index[Len(self.source_metadata.frames) + 1]

\* Target rows a mapping covers on the stacked axis.
Rows(v_map) == StackSlice(v_map).start..(StackSlice(v_map).stop - 1)

\* Sum of s[1..k], by index.
RECURSIVE SumTo(_, _)
SumTo(s, k) == IF k = 0 THEN 0 ELSE SumTo(s, k - 1) + s[k]

NonNegativeSpacing == self.stripe_spacing >= 0 /\ self.module_spacing >= 0

\* C1: for n >= 2 fragments the spacing list has length n, holds
\* stripe_spacing at every even index below n-1, module_spacing at every odd
\* index below n-1, and 0 at index n-1.
C1_SpacingPattern ==
    (Planned /\ Stripes >= 2) =>
        /\ Len(vds_data.spacing) = Stripes
        /\ \A idx \in 0..(Stripes - 2) :
             At(vds_data.spacing, idx) =
                IF idx % 2 = 0 THEN self.stripe_spacing
                ELSE self.module_spacing
        /\ At(vds_data.spacing, Stripes - 1) = 0

C1_Witness ==
    /\ Planned
    /\ Stripes = 5
    /\ self.stripe_spacing = 1
    /\ self.module_spacing = 2
    /\ vds_data.spacing = <<1, 2, 1, 2, 0>>

\* C2: the planned total height is n * height + sum(spacing), and the target
\* shape is the frame dimensions followed by (total height, width).
C2_TotalHeight ==
    Planned =>
        LET total == Stripes * self.source_metadata.height
                     + SumTo(vds_data.spacing, Len(vds_data.spacing))
        IN  /\ vds_data.shape =
                 self.source_metadata.frames
                 \o <<total, self.source_metadata.width>>
            /\ Len(vds_data.shape) = Len(self.source_metadata.frames) + 2

C2_Witness ==
    /\ Planned
    /\ Stripes = 5
    /\ self.source_metadata = Source(<<2, 3>>, 2, 4, "uint16")
    /\ self.stripe_spacing = 1
    /\ self.module_spacing = 2
    /\ vds_data.shape = <<2, 3, 16, 4>>

\* C3 (as claimed): every mapping's slice on the stacked axis is
\* [start, start + height), so that the spacing rows after a fragment are in
\* no mapping.  Stated for positive height and non-negative spacing.
C3_SliceIsOwnHeight ==
    (Mapped /\ self.source_metadata.height > 0 /\ NonNegativeSpacing) =>
        \A k \in 1..Len(map_list) :
            StackSlice(map_list[k]).stop =
                StackSlice(map_list[k]).start + self.source_metadata.height

\* C4: for positive height and non-negative spacing there are exactly n
\* mappings, the k-th for the k-th fragment, with pairwise disjoint target
\* slices and strictly increasing start offsets.
C4_DisjointIncreasing ==
    (Mapped /\ self.source_metadata.height > 0 /\ NonNegativeSpacing) =>
        /\ Len(map_list) = Stripes
        /\ \A k \in 1..Len(map_list) :
             map_list[k].source.path = self.datasets[k]
        /\ \A j, k \in 1..Len(map_list) :
             j < k =>
                /\ Rows(map_list[j]) \cap Rows(map_list[k]) = {}
                /\ StackSlice(map_list[j]).start < StackSlice(map_list[k]).start

C4_Witness ==
    /\ Mapped
    /\ Stripes = 5
    /\ self.source_metadata.height = 2
    /\ self.stripe_spacing = 1
    /\ self.module_spacing = 2
    /\ [k \in 1..5 |-> StackSlice(map_list[k]).start] = <<0, 3, 7, 10, 14>>

(***************************************************************************)
(* Properties of generate_vds (checked under Spec).                        *)
(***************************************************************************)
RECURSIVE Filter(_, _)
Filter(s, keep) ==
    IF s = <<>> THEN <<>>
    ELSE IF Head(s) \in keep THEN <<Head(s)>> \o Filter(Tail(s), keep)
    ELSE Filter(Tail(s), keep)

Opens == Filter(log, {"open_r", "open_w", "open_a"})
Logged(event) == \E i \in 1..Len(log) : log[i] = event
Ended == pc \in {"done", "failed"}
NodeConflict == error = Raised("IOError", "already has an entry")
PathError == error = Raised("ValueError", "leading or trailing slashes")
WriteEvents == {"open_w", "open_a", "create_group", "create_virtual_dataset"}

\* C5: on the first run of a generator, a file that isfile reports absent is
\* opened once, for writing in mode 'w', and never read-only; a file that
\* exists and has no entry at the target node is opened read-only and then
\* for writing in mode 'a'.
C5_FirstRunMode ==
    /\ (first_run /\ ~existed /\ log # <<>>) => ~Logged("open_r")
    /\ (first_run /\ ~existed /\ Ended) => Opens = <<"open_w">>
    /\ (first_run /\ existed /\ Ended /\ error.type # "IOError") =>
            Opens = <<"open_r", "open_a">>

C5_Witness ==
    /\ first_run
    /\ existed
    /\ pc = "done"
    /\ ~ext_touched
    /\ Opens = <<"open_r", "open_a">>

\* The read-only check finding an entry at the target node.
C6_ConflictStep ==
    (pc = "read" /\ pc' # pc /\ artifact.exists
        /\ h5_get(artifact, self.target_node) # None) =>
            /\ pc' = "failed"
            /\ error'.type = "IOError"
            /\ artifact' = artifact
            /\ Filter(log', WriteEvents) = <<>>

\* C6: the step that finds an entry at the target node of an existing file
\* ends the run with IOError, and that run has made no write attempt: no
\* open for writing, no group created, no create_virtual_dataset.
C6_NodeConflict ==
    /\ [](NodeConflict => (pc = "failed" /\ ~changed
                            /\ Filter(log, WriteEvents) = <<>>))
    /\ [][C6_ConflictStep]_vars

C6_Witness ==
    /\ pc = "failed"
    /\ NodeConflict
    /\ ~ext_touched
    /\ self.target_node = <<"a">>

\* The validate_node step of a run, by the first and last character.
C7_ValidateStep ==
    (pc = "validate" /\ pc' # pc) =>
        IF self.target_node[1] = SEP
              \/ self.target_node[Len(self.target_node)] = SEP
        THEN /\ pc' = "failed"
             /\ error'.type = "ValueError"
             /\ artifact' = artifact
             /\ ~\E i \in 1..Len(log') : log'[i] = "create_group"
        ELSE /\ error'.type # "ValueError"
             /\ pc' = "commit" \/ error'.type = "H5Error"

C8_FailureLeavesArtifact ==
    (pc = "failed" /\ (NodeConflict \/ PathError) /\ ~ext_touched) => ~changed

\* The calls of a successful run, and what its commit links.
C9_LogOrder ==
    pc = "done" =>
        /\ Len(Filter(log, {"create_virtual_dataset"})) = 1
        /\ log[Len(log)] = "create_virtual_dataset"
        /\ Len(Filter(log, {"validate_node"})) = 1
        /\ Filter(log, {"open_w", "open_a", "validate_node", "create_group",
                        "create_virtual_dataset"})
              \in { <<o, "validate_node", "create_virtual_dataset">> :
                        o \in {"open_w", "open_a"} }
                  \cup { <<o, "validate_node", "create_group",
                           "create_virtual_dataset">> :
                        o \in {"open_w", "open_a"} }
        /\ existed => Opens[1] = "open_r"
        /\ ~validate_node_raises(self)

C9_CommitStep ==
    (pc = "commit" /\ pc' = "done") =>
        \E d \in artifact'.datasets :
            /\ d \notin artifact.datasets
            /\ d.path = h5_path(self.target_node)
            /\ d.VMlist = create_vds_maps(self, self.source_metadata,
                   construct_vds_metadata(self, self.source_metadata))
            /\ Len(d.VMlist) = Stripes
            /\ d.fillvalue = 1
            /\ artifact'.datasets = artifact.datasets \cup {d}

\* C9: a successful run called create_virtual_dataset exactly once, as its
\* last call, with every mapping of create_vds_maps and fill value 1, after
\* the mode check passed and validate_node returned on the file opened for
\* writing.
C9_SingleCommit == [](C9_LogOrder) /\ [][C9_CommitStep]_vars

C9_Witness ==
    /\ pc = "done"
    /\ Opens = <<"open_r", "open_a">>
    /\ Logged("create_group")
    /\ Stripes = 3
    /\ \E d \in artifact.datasets :
         d.path = <<<<"a">>, <<"a">>>> /\ Len(d.VMlist) = 3 /\ d.fillvalue = 1

(***************************************************************************)
(* Properties of process_source_datasets (checked under SpecProbe).        *)
(***************************************************************************)
AllLikeFirst == \A k \in 1..Len(probed) : probed[k] = probed[1]

\* C10: process_source_datasets returns exactly when every fragment has the
\* height, width, element type and frame dimensions of the first one, and
\* then returns the first fragment's metadata; a fragment that differs in
\* any of them, frame count included, ends it with ValueError.
C10_ReturnsIffConsistent ==
    /\ pc = "probed" =>
          /\ Len(probed) = Stripes
          /\ AllLikeFirst
          /\ result = probed[1]
    /\ (pc = "probe" /\ probed # <<>>) => AllLikeFirst
    /\ (pc = "failed" /\ probed # <<>>) =>
          /\ error.type = "ValueError"
          /\ ~AllLikeFirst
          /\ \E a \in Attributes :
               probed[Len(probed)][a] # probed[1][a]
    /\ (probed # <<>> /\ ~AllLikeFirst) => pc = "failed"

C10_Witness ==
    /\ pc = "failed"
    /\ error.type = "ValueError"
    /\ Len(probed) = 2
    /\ probed[1] = Source(<<3>>, 1, 4, "uint16")
    /\ probed[2] = Source(<<2, 3>>, 1, 4, "uint16")

\* The attributes in which the fragment probed last differs from the first.
Differing == {a \in Attributes : probed[Len(probed)][a] # probed[1][a]}
Mismatch == pc = "failed" /\ error.type = "ValueError" /\ Len(probed) >= 2

\* The first attribute of Differing in a given order of the four keys.
FirstIn(order) ==
    order[CHOOSE i \in 1..4 :
            order[i] \in Differing /\ \A j \in 1..(i - 1) : order[j] \notin Differing]

ClaimedOrder == <<"height", "width", "dtype", "frames">>

\* C11: the mismatch error names an attribute in which the fragment differs
\* from the first: width when only width differs, and when several differ the
\* first of them in the iteration order of the metadata dict (data.items()).
C11_NamesFirstInItemOrder ==
    Mismatch =>
        /\ error.arg \in Differing
        /\ error.arg = FirstIn(attr_order)
        /\ Differing = {"width"} => error.arg = "width"

C11_Witness ==
    /\ Mismatch
    /\ attr_order = <<"frames", "height", "width", "dtype">>
    /\ Differing = {"frames", "height", "width"}
    /\ error.arg = "frames"

\* C11 (as claimed): when several attributes differ the error names the first
\* of them in the order height, width, element type, frame dimensions.
C11_NamesFirstInClaimedOrder ==
    Mismatch => error.arg = FirstIn(ClaimedOrder)

(***************************************************************************)
(* Properties of validate_node (checked under Spec).                       *)
(***************************************************************************)
HasSeparator == \E i \in 1..Len(self.target_node) : self.target_node[i] = SEP

\* The target node up to its last separator.
Parent ==
    LET last == CHOOSE i \in 1..Len(self.target_node) :
                    /\ self.target_node[i] = SEP
                    /\ \A j \in (i + 1)..Len(self.target_node) :
                           self.target_node[j] # SEP
    IN  SubSeq(self.target_node, 1, last - 1)

ValidNode ==
    /\ self.target_node[1] # SEP
    /\ self.target_node[Len(self.target_node)] # SEP

C17_ValidateStep ==
    (pc = "validate" /\ pc' # pc /\ ValidNode) =>
        IF HasSeparator /\ h5_get(artifact, Parent) = None
        THEN /\ Filter(log', {"create_group"}) = <<"create_group">>
             /\ pc' = "commit" =>
                   /\ h5_path(Parent) \in artifact'.groups
                   /\ h5_path(Parent) \notin artifact.groups
                   /\ artifact'.groups \subseteq
                         artifact.groups \cup {h5_path(Parent)}
                                         \cup ancestors(h5_path(Parent))
                   /\ artifact'.datasets = artifact.datasets
        ELSE /\ Filter(log', {"create_group"}) = <<>>
             /\ artifact' = artifact
             /\ pc' = "commit"

C18_TestStep ==
    (pc = "validate" /\ pc' # pc
        /\ self.target_node \in TestNodes
        /\ self.target_node[1] = SEP
        /\ <<<<"a">>, <<"a">>>> \notin artifact.groups) =>
            /\ pc' = "commit"
            /\ error' = NoError
            /\ Filter(log', {"create_group"}) = <<"create_group">>
            /\ <<<<"a">>, <<"a">>>> \in artifact'.groups

\* C18 (as claimed): for the target nodes "/a/a/a" and "/a/a/a//" with the
\* parent absent, validate_node raises nothing and creates the parent group
\* once.
C18_AcceptsSlashes == [][C18_TestStep]_vars

(***************************************************************************)
(* Properties of the constructor and of a run from main (checked under     *)
(* SpecInit).                                                              *)
(***************************************************************************)
\* __init__ has been entered with keyword arguments: args holds them.
Entered == pc # "cli" /\ error.type # "SystemExit"

\* __init__ has returned: it sets output_file last.
Constructed == "output_file" \in DOMAIN self

Paths(names) == [i \in 1..Len(names) |-> "/t/" \o names[i]]

\* C12: when no source is given and some fragment path is not a file, the
\* constructor fails with IOError naming the first such path of
\* self.datasets; it has checked the paths up to that one and no further,
\* and it has opened no fragment.
C12_FirstAbsentNamed ==
    absent # {} =>
        /\ args.source = Nothing
        /\ pc = "failed"
        /\ ~Constructed
        /\ error.type = "IOError"
        /\ error.arg \in absent
        /\ \E k \in 1..Len(self.datasets) :
             /\ self.datasets[k] = error.arg
             /\ \A j \in 1..(k - 1) : self.datasets[j] \notin absent
             /\ checked = SubSeq(self.datasets, 1, k)
        /\ probed = <<>>
        /\ data = NoMeta

C12_Witness ==
    /\ pc = "failed"
    /\ absent = {"/t/s10.h5", "/t/s2.hdf"}
    /\ self.datasets = <<"/t/s1.h5", "/t/s10.h5", "/t/s2.hdf">>
    /\ error = Raised("IOError", "/t/s10.h5")
    /\ checked = <<"/t/s1.h5", "/t/s10.h5">>
    /\ probed = <<>>

BothOrNeither ==
    \/ args.prefix = Nothing /\ args.files = Nothing
    \/ args.prefix # Nothing /\ args.files # Nothing

Untouched ==
    /\ self = ClassAttributes
    /\ listing = Nothing
    /\ checked = <<>>
    /\ absent = {}
    /\ probed = <<>>
    /\ log = <<>>

C13_CheckStep ==
    (pc = "new" /\ pc' # pc) =>
        IF BothOrNeither
        THEN /\ pc' = "failed"
             /\ error'.type = "ValueError"
             /\ Untouched /\ Untouched'
        ELSE pc' = "files" /\ error' = NoError

\* C13: a constructor call with both prefix and files, or with neither, ends
\* at its first statement with ValueError: no directory has been listed, no
\* path checked, no fragment opened, and the object has no attribute beyond
\* those of its class.
C13_ConfigurationError ==
    /\ []((Entered /\ pc # "new" /\ BothOrNeither) =>
            /\ pc = "failed"
            /\ error = Raised("ValueError",
                              "One, and only one, of prefix or files required.")
            /\ Untouched)
    /\ [][C13_CheckStep]_vars

C13_Witness ==
    /\ pc = "failed"
    /\ error.type = "ValueError"
    /\ args.prefix = Some("s")
    /\ args.files = Some(<<"s1.h5", "s2.hdf">>)
    /\ self = ClassAttributes

\* C14: with a source given, no fragment path is checked and no fragment is
\* opened, and the stored metadata is (shape[:-2], shape[-2], shape[-1],
\* dtype) of that source; without one, the constructor returns only after
\* checking and opening every fragment, and stores what the probing returned.
C14_SourceOrProbe ==
    /\ (Entered /\ args.source # Nothing) =>
          /\ checked = <<>> /\ absent = {} /\ probed = <<>> /\ result = NoMeta
          /\ Constructed =>
               LET shape == args.source[1].shape
                   n == Len(shape)
               IN  self.source_metadata =
                     [frames |-> SubSeq(shape, 1, n - 2), height |-> shape[n - 1],
                      width |-> shape[n], dtype |-> args.source[1].dtype]
    /\ (Entered /\ args.source = Nothing) =>
          /\ "source_metadata" \in DOMAIN self => Constructed
          /\ Constructed =>
               /\ checked = self.datasets
               /\ Len(probed) = Len(self.datasets)
               /\ self.source_metadata = result
               /\ result = probed[1]

C14_Witness ==
    /\ pc = "ready"
    /\ args.source = Some([shape |-> <<3, 2, 4>>, dtype |-> "int16"])
    /\ self.source_metadata = Source(<<3>>, 2, 4, "int16")
    /\ checked = <<>>
    /\ probed = <<>>

\* The names of DirNames that are the prefix "s", digits, a dot and one of
\* hdf5, hdf, h5.
Matching == {"s1.h5", "s2.hdf", "s10.h5"}

\* C15: find_files returns the paths of exactly the listed names that match
\* the prefix pattern, in ascending order of the names whatever the order of
\* the listing, and raises IOError when fewer than two names match.
C15_FindFiles ==
    listing # Nothing =>
        LET dir == listing[1]
            found == {dir[i] : i \in 1..Len(dir)} \cap Matching
        IN  IF Cardinality(found) < 2
            THEN /\ pc = "failed"
                 /\ error.type = "IOError"
                 /\ "datasets" \notin DOMAIN self
            ELSE /\ pc = "name"
                 /\ error = NoError
                 /\ Len(self.datasets) = Cardinality(found)
                 /\ {self.datasets[i] : i \in 1..Len(self.datasets)} =
                        {"/t/" \o name : name \in found}
                 /\ \A i, j \in 1..Len(self.datasets) :
                      i < j => str_lt(basename("/t", self.datasets[i]),
                                      basename("/t", self.datasets[j]))

C15_Witness ==
    /\ pc = "name"
    /\ listing = Some(<<"s2.hdf", "s10.h5", "s1.h5">>)
    /\ self.datasets = <<"/t/s1.h5", "/t/s10.h5", "/t/s2.hdf">>

FromCommandLine == args.entry = "cli"

\* C16: a run from the command line never plans a layout for fewer than two
\* fragments: parse_args rejects a files list of fewer than two names, and
\* find_files rejects a directory with fewer than two matching names.  (The
\* constructor itself accepts an explicit list of any length.)
C16_CommandLineRejectsSingle ==
    /\ (FromCommandLine /\ Logged("construct_vds_metadata")) =>
          Len(self.datasets) >= 2
    /\ (FromCommandLine /\ pc # "cli" /\ args.files # Nothing
          /\ Len(args.files[1]) < 2) =>
          /\ pc = "failed"
          /\ error.type = "SystemExit"
          /\ self = ClassAttributes
          /\ log = <<>>
    /\ (listing # Nothing
          /\ Cardinality({listing[1][i] : i \in 1..Len(listing[1])}
                            \cap Matching) < 2) =>
          /\ pc = "failed"
          /\ error.type = "IOError"
          /\ log = <<>>

C16_Witness ==
    /\ FromCommandLine
    /\ args.files = Some(<<"s1.h5">>)
    /\ pc = "failed"
    /\ error.type = "SystemExit"

\* C16 (as claimed): whatever the way the fragments were given,
\* construct_vds_metadata is never called with fewer than two fragments.
C16_NeverPlansSingle ==
    Logged("construct_vds_metadata") => Len(self.datasets) >= 2

\* The value an attribute has once the defaults were overwritten.
Chosen(arg, default) == IF arg = Nothing THEN default ELSE arg[1]

\* C19: after the constructor's first block the four attributes are the
\* given arguments where given (a spacing of 0 included) and otherwise the
\* defaults 10, 10, "data" and "full_frame"; the mode is "w" until a run
\* changes it.
C19_Defaults ==
    (Entered /\ "path" \in DOMAIN self) =>
        /\ self.stripe_spacing = Chosen(args.stripe_spacing, 10)
        /\ self.module_spacing = Chosen(args.module_spacing, 10)
        /\ self.source_node = Chosen(args.source_node, "data")
        /\ self.target_node =
              Chosen(args.target_node,
                     <<"f", "u", "l", "l", "_", "f", "r", "a", "m", "e">>)
        /\ log = <<>> => self.mode = "w"

C19_Witness ==
    /\ pc = "ready"
    /\ args.stripe_spacing = Some(0)
    /\ args.module_spacing = Nothing
    /\ args.source_node = Some("entry/data")
    /\ args.target_node = Nothing
    /\ self.stripe_spacing = 0
    /\ self.module_spacing = 10
    /\ self.source_node = "entry/data"
    /\ self.target_node[1] = "f"
    /\ self.mode = "w"

Start(k) == StackSlice(map_list[k]).start

\* C20: once create_vds_maps has returned there is a mapping per fragment,
\* the first starts at 0, each next one starts at the previous start plus
\* the fragment height plus the previous fragment's spacing, and the k-th
\* mapping reads the k-th path of self.datasets, which for a given files
\* list is the k-th given name joined to the path.
C20_AccumulatedPosition ==
    (Constructed /\ Logged("create_vds_maps")) =>
        /\ Len(map_list) = Len(self.datasets)
        /\ Len(map_list) >= 1 => Start(1) = 0
        /\ \A k \in 1..(Len(map_list) - 1) :
             Start(k + 1) = Start(k) + self.source_metadata.height
                                + vds_data.spacing[k]
        /\ \A k \in 1..Len(map_list) :
             map_list[k].source.path = self.datasets[k]
        /\ args.files # Nothing =>
             [k \in 1..Len(map_list) |-> map_list[k].source.path]
                 = Paths(args.files[1])

C20_Witness ==
    /\ pc = "done"
    /\ args.files = Some(<<"s2.hdf", "s1.h5">>)
    /\ args.stripe_spacing = Some(1)
    /\ [k \in 1..Len(map_list) |-> map_list[k].source.path]
          = <<"/t/s2.hdf", "/t/s1.h5">>
    /\ [k \in 1..Len(map_list) |-> Start(k)] = <<0, 3>>

(***************************************************************************)
(* Properties of runs that follow one another, and of runs beside an       *)
(* external process (checked under Spec).                                  *)
(***************************************************************************)
\* C21 (as claimed): in every run, a later run of the same generator
\* included, the file is opened for writing in mode 'w' when isfile found it
\* absent, and in mode 'a' when it existed.
C21_ModeAfresh ==
    /\ ~existed => ~Logged("open_a")
    /\ existed => ~Logged("open_w")

\* Position of a call in the order generate_vds makes its calls.
Rank(event) ==
    CASE event = "isfile" -> 1
      [] event = "open_r" -> 2
      [] event = "construct_vds_metadata" -> 3
      [] event = "create_vds_maps" -> 4
      [] event \in {"open_w", "open_a"} -> 5
      [] event = "validate_node" -> 6
      [] event = "create_group" -> 7
      [] event = "create_virtual_dataset" -> 8

\* C22: generate_vds makes its calls in the order existence check, read-only
\* node check (when the file exists), construct_vds_metadata,
\* create_vds_maps, open for writing, validate_node, commit: the node check
\* precedes the layout and the mappings, and no call is made before the
\* calls ahead of it in the order were made.
C22_CheckThenPlan ==
    /\ \A i, j \in 1..Len(log) : i < j => Rank(log[i]) < Rank(log[j])
    /\ log # <<>> => log[1] = "isfile"
    /\ (Logged("construct_vds_metadata") /\ existed) => log[2] = "open_r"
    /\ Logged("open_r") => existed
    /\ Logged("create_vds_maps") => Logged("construct_vds_metadata")
    /\ (Logged("open_w") \/ Logged("open_a")) => Logged("create_vds_maps")
    /\ Logged("validate_node") => (Logged("open_w") \/ Logged("open_a"))
    /\ Logged("create_group") => Logged("validate_node")
    /\ Logged("create_virtual_dataset") => Logged("validate_node")

C22_Witness ==
    /\ pc = "done"
    /\ log = <<"isfile", "open_r", "construct_vds_metadata", "create_vds_maps",
               "open_a", "validate_node", "create_group",
               "create_virtual_dataset">>

\* C22 (as claimed): the node check is made after the layout and the
\* mappings have been built.
C22_PlanThenCheck ==
    \A i \in 1..Len(log) :
        log[i] = "open_r" =>
            \E j, k \in 1..(i - 1) :
                /\ log[j] = "construct_vds_metadata"
                /\ log[k] = "create_vds_maps"

\* C23: process_source_datasets probes the fragments in the order of
\* self.datasets and stops at the first one whose metadata differs from the
\* first fragment's: every fragment probed before it matched, none after it
\* is probed, and the failure leaves the generator unconstructed with no
\* call of generate_vds made and the output file neither opened nor written.
C23_StopsAtFirstMismatch ==
    /\ Len(opened) = Len(probed)
    /\ opened # <<>> =>
          opened = SubSeq(self.datasets, 1, Len(opened))
    /\ Mismatch =>
          /\ \A k \in 1..(Len(probed) - 1) : probed[k] = probed[1]
          /\ probed[Len(probed)] # probed[1]
          /\ ~Constructed
          /\ log = <<>>
          /\ ~changed

C23_Witness ==
    /\ Mismatch
    /\ Len(self.datasets) = 3
    /\ Len(opened) = 2
    /\ artifact = NoFile

C27_TruncateOnlyAbsent ==
    ~ext_touched =>
        /\ Logged("open_w") => ~existed
        /\ (pc = "validate" /\ existed) =>
              /\ Logged("open_a")
              /\ ~changed
              /\ artifact.exists

C27_Witness ==
    /\ ~ext_touched
    /\ ~first_run
    /\ existed
    /\ pc = "validate"
    /\ artifact.datasets # {}
    /\ Logged("open_a")

\* C25 (as claimed): a fragment file is closed as soon as its metadata has
\* been read: no fragment handle is open once grab_metadata has returned, so
\* none is open when the next fragment is probed, when the mismatch error is
\* raised or when the output file is opened, and the output file is open for
\* writing only during validate_node and the commit.
C25_FragmentsClosed ==
    /\ opened # <<>> => handles = {}
    /\ Filter(log, WriteEvents) # <<>> =>
          (pc \in {"validate", "commit", "done", "failed"} /\ handles = {})

(***************************************************************************)
(* Further properties of the layout (checked under SpecLayout).            *)
(***************************************************************************)
\* C26: with k frame dimensions, k >= 0, every mapping's target index has
\* k + 2 slices, as many as the target shape has dimensions: the first k and
\* the last are full slices and the one at position k is the bounded slice
\* of the stacked axis; every mapping's source shape is the frame dimensions
\* followed by height and width.
C26_IndexShape ==
    Mapped =>
        LET k == Len(self.source_metadata.frames)
        IN  \A v_map \in {map_list[i] : i \in 1..Len(map_list)} :
                /\ Len(v_map.target.index) = k + 2
                /\ Len(v_map.target.index) = Len(v_map.target.shape)
                /\ \A i \in 1..(k + 2) :
                      v_map.target.index[i].full = (i # k + 1)
                /\ v_map.source.shape =
                      self.source_metadata.frames
                      \o <<self.source_metadata.height,
                           self.source_metadata.width>>

C26_Witness ==
    /\ Mapped
    /\ self.source_metadata.frames = <<>>
    /\ Stripes = 2
    /\ map_list[2].target.index = <<slice(3, 5), FULL_SLICE>>
    /\ map_list[2].source.shape = <<2, 4>>

\* The height the plan declares on the stacked axis of the target shape.
TotalHeight == vds_data.shape[Len(self.source_metadata.frames) + 1]

\* C30: for non-negative spacing, every slice create_vds_maps builds from
\* the plan of construct_vds_metadata starts at 0 or above and stops at the
\* declared height of the target or below, and the last slice stops at
\* exactly that height.
C30_SlicesWithinTarget ==
    (Mapped /\ NonNegativeSpacing) =>
        /\ \A k \in 1..Len(map_list) :
             /\ 0 <= StackSlice(map_list[k]).start
             /\ StackSlice(map_list[k]).start <= StackSlice(map_list[k]).stop
             /\ StackSlice(map_list[k]).stop <= TotalHeight
        /\ map_list # <<>> =>
             StackSlice(map_list[Len(map_list)]).stop = TotalHeight

C30_Witness ==
    /\ Mapped
    /\ Stripes = 5
    /\ self.stripe_spacing = 1
    /\ self.module_spacing = 2
    /\ self.source_metadata.height = 2
    /\ TotalHeight = 16
    /\ StackSlice(map_list[5]) = slice(14, 16)

(***************************************************************************)
(* Properties of a run on a file that earlier runs have written (checked   *)
(* under Spec).                                                            *)
(***************************************************************************)
TargetPath == h5_path(self.target_node)

\* C28: with no external change, a run whose target node holds the dataset
\* an earlier run committed never gets past the read-only check: it ends
\* with the node-conflict IOError, having opened the file read-only and no
\* other way, and the file with that dataset in it is left as it was.  Only
\* the run that commits the dataset ends well.
C28_SecondRunConflicts ==
    ~ext_touched =>
        /\ pc \in {"plan", "maps", "open", "validate", "commit"} =>
              TargetPath \notin dataset_paths(artifact)
        /\ (pc = "failed" /\ TargetPath \in dataset_paths(artifact)) =>
              /\ NodeConflict
              /\ Opens = <<"open_r">>
              /\ Filter(log, WriteEvents) = <<>>
              /\ ~changed
        /\ pc = "done" =>
              /\ TargetPath \in dataset_paths(artifact)
              /\ changed
              /\ Logged("create_virtual_dataset")

\* The generator that committed the dataset is run again.
C28_Witness ==
    /\ ~ext_touched
    /\ ~first_run
    /\ self.mode = CREATE
    /\ pc = "failed"
    /\ NodeConflict
    /\ TargetPath \in dataset_paths(artifact)
    /\ ~changed

\* The datasets the file held before the current run.
PriorPaths ==
    dataset_paths(artifact) \ (IF pc = "done" THEN {TargetPath} ELSE {})

\* Neither path is the other or lies under it.
Independent(p, q) == ~is_prefix(p, q) /\ ~is_prefix(q, p)

\* A run in mode 'a' only adds to the file.
C29_AppendStep ==
    (pc \in {"open", "validate", "commit"} /\ pc' # pc
        /\ self.mode = APPEND /\ artifact.exists) =>
            /\ artifact.datasets \subseteq artifact'.datasets
            /\ artifact.groups \subseteq artifact'.groups

C29_SecondRun ==
    (~ext_touched /\ existed /\ Ended /\ ValidNode /\ PriorPaths # {}
        /\ \A q \in PriorPaths : Independent(TargetPath, q)) =>
            /\ pc = "done"
            /\ Opens = <<"open_r", "open_a">>
            /\ dataset_paths(artifact) = PriorPaths \cup {TargetPath}

====
